---------------------------- MODULE Spec2Model ----------------------------
(***************************************************************************)
(* A model of src/simple_http.rs: the minimal HTTP round-tripper used to   *)
(* carry JSON-RPC calls (SimpleHttpTransport), its Builder and get_line.   *)
(*                                                                         *)
(* Text is modelled as Rust holds it: a sequence of bytes.  A byte is a    *)
(* one-character string; the two bytes of the UTF-8 encoding of U+00E9     *)
(* are written "C3" and "A9".  Offsets are Rust's: 0-based byte offsets.   *)
(* Time is counted in ticks of 5 ms (the sleep of get_line).               *)
(***************************************************************************)
EXTENDS Integers, Sequences, FiniteSets, TLC

(***************************************************************************)
(* Bounds of the model.                                                    *)
(***************************************************************************)
\* The clock stops advancing here.
MaxTime == 4
\* The largest timeout (in ticks) a configuration of the request engine holds.
MaxTimeout == 2
\* Header lines the engine discards before the model stops feeding more.
MaxHeaders == 2
\* Setter calls in one builder chain.
MaxChain == 3

(***************************************************************************)
(* Program constants.                                                      *)
(***************************************************************************)
DEFAULT_PORT == 8332
HTTP_PORT == 80
HTTPS_PORT == 443
\* Duration::from_secs(15), in ticks of 5 ms.
DEFAULT_TIMEOUT == 3000
\* thread::sleep(Duration::from_millis(5)): one tick.
SLEEP_TICKS == 1
\* u16::MAX
U16_MAX == 65535
\* The status code the engine treats as success.
HTTP_OK == 200
\* http_response.len() < 12, and the slice [9..12].
STATUS_MIN_LEN == 12
STATUS_CODE_AT == 9

(***************************************************************************)
(* Bytes and the std string operations the code uses.                      *)
(***************************************************************************)
Min(S) == CHOOSE x \in S : \A y \in S : x <= y

Digits == <<"0", "1", "2", "3", "4", "5", "6", "7", "8", "9">>

IsDigit(b) == \E d \in 1..10 : Digits[d] = b

DigitVal(b) == (CHOOSE d \in 1..10 : Digits[d] = b) - 1

\* Continuation bytes of a multi-byte UTF-8 character.
ContBytes == {"A9"}

\* str::is_char_boundary(i)
IsCharBoundary(s, i) ==
    \/ i = 0
    \/ i = Len(s)
    \/ i < Len(s) /\ s[i + 1] \notin ContBytes

\* str::starts_with(p)
StartsWith(s, p) == Len(s) >= Len(p) /\ SubSeq(s, 1, Len(p)) = p

\* str::find(p): the byte offset of the first match, -1 for None.
Find(s, p) ==
    LET hits == {i \in 0..(Len(s) - Len(p)) : SubSeq(s, i + 1, i + Len(p)) = p}
    IN  IF hits = {} THEN -1 ELSE Min(hits)

\* s[from..] and s[..to]
From(s, from) == SubSeq(s, from + 1, Len(s))
UpTo(s, to) == SubSeq(s, 1, to)

\* str::splitn(2, p), as the sequence of its items (one or two).
SplitN2(s, p) ==
    LET at == Find(s, p)
    IN  IF at < 0 THEN <<s>> ELSE <<UpTo(s, at), From(s, at + Len(p))>>

\* str::split(p), as the sequence of its items.
RECURSIVE Split(_, _)
Split(s, p) ==
    LET at == Find(s, p)
    IN  IF at < 0 THEN <<s>>
        ELSE <<UpTo(s, at)>> \o Split(From(s, at + Len(p)), p)

\* The value of a string of decimal digits.
RECURSIVE DecValue(_)
DecValue(ds) ==
    IF ds = <<>> THEN 0
    ELSE 10 * DecValue(SubSeq(ds, 1, Len(ds) - 1)) + DigitVal(ds[Len(ds)])

\* str::parse::<u16>(): an optional "+", then at least one decimal digit,
\* the value at most u16::MAX.  [ok |-> FALSE] is Err(ParseIntError).
ParseU16(s) ==
    LET ds == IF s # <<>> /\ s[1] = "+" THEN Tail(s) ELSE s
    IN  IF ds = <<>> \/ \E i \in 1..Len(ds) : ~IsDigit(ds[i])
        THEN [ok |-> FALSE, val |-> 0]
        ELSE IF DecValue(ds) > U16_MAX
             THEN [ok |-> FALSE, val |-> 0]
             ELSE [ok |-> TRUE, val |-> DecValue(ds)]

\* usize::to_string(): decimal, no sign, no leading zero.
RECURSIVE UsizeToString(_)
UsizeToString(n) ==
    IF n < 10 THEN <<Digits[n + 1]>>
    ELSE UsizeToString(n \div 10) \o <<Digits[(n % 10) + 1]>>

\* Concatenation of a sequence of byte strings.
RECURSIVE Concat(_)
Concat(ss) == IF ss = <<>> THEN <<>> ELSE Head(ss) \o Concat(Tail(ss))

CRLF == <<"\r", "\n">>
LF == <<"\n">>

(***************************************************************************)
(* serde_json, for the payload values of the model: null, unsigned         *)
(* integers, strings and arrays.  A payload whose Serialize implementation *)
(* reports an error is the value Unserializable.                           *)
(***************************************************************************)
JNull == [t |-> "null", n |-> 0, s |-> <<>>, a |-> <<>>]
JNum(k) == [t |-> "num", n |-> k, s |-> <<>>, a |-> <<>>]
JStr(bs) == [t |-> "str", n |-> 0, s |-> bs, a |-> <<>>]
JArr(es) == [t |-> "arr", n |-> 0, s |-> <<>>, a |-> es]
Unserializable == [t |-> "unserializable", n |-> 0, s |-> <<>>, a |-> <<>>]

\* The escape letter serde_json writes for a byte of a string, "" for none.
EscapeOf(b) ==
    CASE b = "\"" -> "\""
      [] b = "\\" -> "\\"
      [] b = "\n" -> "n"
      [] b = "\r" -> "r"
      [] b = "\t" -> "t"
      [] OTHER -> ""

\* The byte an escape letter stands for when read back, "" for an invalid one.
UnescapeOf(b) ==
    CASE b = "\"" -> "\""
      [] b = "\\" -> "\\"
      [] b = "/" -> "/"
      [] b = "n" -> "\n"
      [] b = "r" -> "\r"
      [] b = "t" -> "\t"
      [] OTHER -> ""

RECURSIVE EscapeStr(_)
EscapeStr(bs) ==
    IF bs = <<>> THEN <<>>
    ELSE (IF EscapeOf(Head(bs)) = "" THEN <<Head(bs)>>
          ELSE <<"\\", EscapeOf(Head(bs))>>) \o EscapeStr(Tail(bs))

\* serde_json::to_vec(&v) for a serializable v: compact, on one line.
RECURSIVE ToVec(_)
RECURSIVE ToVecElems(_)
ToVecElems(es) ==
    IF es = <<>> THEN <<>>
    ELSE ToVec(Head(es))
         \o (IF Len(es) > 1 THEN <<",">> ELSE <<>>) \o ToVecElems(Tail(es))

ToVec(v) ==
    CASE v.t = "null" -> <<"n", "u", "l", "l">>
      [] v.t = "num" -> UsizeToString(v.n)
      [] v.t = "str" -> <<"\"">> \o EscapeStr(v.s) \o <<"\"">>
      [] v.t = "arr" -> <<"[">> \o ToVecElems(v.a) \o <<"]">>

\* serde_json::to_vec(&req): Err for a payload that cannot be serialized.
Serialize(v) ==
    IF v.t = "unserializable" THEN [ok |-> FALSE, bytes |-> <<>>]
    ELSE [ok |-> TRUE, bytes |-> ToVec(v)]

JsonWs == {" ", "\n", "\t", "\r"}

ParseFail == [ok |-> FALSE, val |-> JNull, next |-> 0]

RECURSIVE SkipWs(_, _)
SkipWs(s, i) == IF i <= Len(s) /\ s[i] \in JsonWs THEN SkipWs(s, i + 1) ELSE i

RECURSIVE EndOfDigits(_, _)
EndOfDigits(s, i) ==
    IF i <= Len(s) /\ IsDigit(s[i]) THEN EndOfDigits(s, i + 1) ELSE i

\* An unsigned integer at s[i]; a leading zero may not be followed by a digit.
ParseNumber(s, i) ==
    LET e == EndOfDigits(s, i)
    IN  IF e = i \/ (s[i] = "0" /\ e > i + 1) THEN ParseFail
        ELSE [ok |-> TRUE, val |-> JNum(DecValue(SubSeq(s, i, e - 1))), next |-> e]

\* The rest of a string whose opening quote was read; acc is what was read.
RECURSIVE ParseStr(_, _, _)
ParseStr(s, i, acc) ==
    IF i > Len(s) THEN ParseFail
    ELSE IF s[i] = "\"" THEN [ok |-> TRUE, val |-> JStr(acc), next |-> i + 1]
    ELSE IF s[i] = "\\"
         THEN IF i + 1 > Len(s) \/ UnescapeOf(s[i + 1]) = "" THEN ParseFail
              ELSE ParseStr(s, i + 2, Append(acc, UnescapeOf(s[i + 1])))
    ELSE IF s[i] \in {"\n", "\r", "\t"} THEN ParseFail
    ELSE ParseStr(s, i + 1, Append(acc, s[i]))

RECURSIVE ParseValue(_, _)
RECURSIVE ParseElems(_, _, _)
\* The elements of an array after "[" or ",": a value, then "," or "]".
ParseElems(s, i, acc) ==
    LET r == ParseValue(s, SkipWs(s, i))
        j == SkipWs(s, r.next)
    IN  IF ~r.ok \/ j > Len(s) THEN ParseFail
        ELSE IF s[j] = "," THEN ParseElems(s, j + 1, Append(acc, r.val))
        ELSE IF s[j] = "]"
             THEN [ok |-> TRUE, val |-> JArr(Append(acc, r.val)), next |-> j + 1]
        ELSE ParseFail

\* One JSON value at s[i] (i past any whitespace).
ParseValue(s, i) ==
    IF i > Len(s) THEN ParseFail
    ELSE IF s[i] = "n"
         THEN IF i + 3 <= Len(s) /\ SubSeq(s, i, i + 3) = <<"n", "u", "l", "l">>
              THEN [ok |-> TRUE, val |-> JNull, next |-> i + 4]
              ELSE ParseFail
    ELSE IF IsDigit(s[i]) THEN ParseNumber(s, i)
    ELSE IF s[i] = "\"" THEN ParseStr(s, i + 1, <<>>)
    ELSE IF s[i] = "["
         THEN LET j == SkipWs(s, i + 1)
              IN  IF j <= Len(s) /\ s[j] = "]"
                  THEN [ok |-> TRUE, val |-> JArr(<<>>), next |-> j + 1]
                  ELSE ParseElems(s, j, <<>>)
    ELSE ParseFail

\* Whether a value deserializes as the payload type R of request<R>.
\* "value" accepts any JSON (serde_json::Value); the others one kind each.
PayloadTypes == {"value", "num", "arr"}

TypeAccepts(rtype, v) == rtype = "value" \/ v.t = rtype

\* serde_json::from_str::<R>(line): the whole line must be one value of type
\* R between optional whitespace.  [ok |-> FALSE] is Err(serde_json::Error).
FromStr(rtype, line) ==
    LET r == ParseValue(line, SkipWs(line, 1))
    IN  IF ~r.ok \/ SkipWs(line, r.next) <= Len(line) \/ ~TypeAccepts(rtype, r.val)
        THEN [ok |-> FALSE, val |-> JNull]
        ELSE [ok |-> TRUE, val |-> r.val]

(***************************************************************************)
(* base64::encode (standard alphabet, padded).                             *)
(***************************************************************************)
\* The printable ASCII characters, from 0x20 (0x60 is written "GRAVE").
Ascii ==
  <<
    " ", "!", "\"", "#", "$", "%", "&", "'", "(", ")", "*", "+",
    ",", "-", ".", "/", "0", "1", "2", "3", "4", "5", "6", "7",
    "8", "9", ":", ";", "<", "=", ">", "?", "@", "A", "B", "C",
    "D", "E", "F", "G", "H", "I", "J", "K", "L", "M", "N", "O",
    "P", "Q", "R", "S", "T", "U", "V", "W", "X", "Y", "Z", "[",
    "\\", "]", "^", "_", "GRAVE", "a", "b", "c", "d", "e", "f", "g",
    "h", "i", "j", "k", "l", "m", "n", "o", "p", "q", "r", "s",
    "t", "u", "v", "w", "x", "y", "z", "{", "|", "}", "~"
  >>

\* The value of a byte (credentials are printable ASCII).
ByteVal(b) == 31 + (CHOOSE i \in 1..Len(Ascii) : Ascii[i] = b)

Base64Alphabet ==
  <<
    "A", "B", "C", "D", "E", "F", "G", "H", "I", "J", "K", "L", "M", "N", "O", "P",
    "Q", "R", "S", "T", "U", "V", "W", "X", "Y", "Z", "a", "b", "c", "d", "e", "f",
    "g", "h", "i", "j", "k", "l", "m", "n", "o", "p", "q", "r", "s", "t", "u", "v",
    "w", "x", "y", "z", "0", "1", "2", "3", "4", "5", "6", "7", "8", "9", "+", "/"
  >>

Sextet(k) == Base64Alphabet[k + 1]

RECURSIVE Base64Encode(_)
Base64Encode(bs) ==
    IF bs = <<>> THEN <<>>
    ELSE IF Len(bs) = 1
         THEN LET w == ByteVal(bs[1]) * 16
              IN  <<Sextet(w \div 64), Sextet(w % 64), "=", "=">>
    ELSE IF Len(bs) = 2
         THEN LET w == (ByteVal(bs[1]) * 256 + ByteVal(bs[2])) * 4
              IN  <<Sextet(w \div 4096), Sextet((w \div 64) % 64), Sextet(w % 64), "=">>
    ELSE LET w == ByteVal(bs[1]) * 65536 + ByteVal(bs[2]) * 256 + ByteVal(bs[3])
         IN  <<Sextet(w \div 262144), Sextet((w \div 4096) % 64),
               Sextet((w \div 64) % 64), Sextet(w % 64)>>
             \o Base64Encode(SubSeq(bs, 4, Len(bs)))

(***************************************************************************)
(* Option, the Error enum and the endpoint configuration.                  *)
(***************************************************************************)
None == [some |-> FALSE, val |-> <<>>]
Some(v) == [some |-> TRUE, val |-> v]

\* enum Error: the variant and its payload (unused fields at their defaults).
NoError == [kind |-> "none", url |-> <<>>, reason |-> "", code |-> 0, io |-> ""]
InvalidUrl(u, why) == [NoError EXCEPT !.kind = "InvalidUrl", !.url = u, !.reason = why]
SocketError(e) == [NoError EXCEPT !.kind = "SocketError", !.io = e]
HttpParseError == [NoError EXCEPT !.kind = "HttpParseError"]
HttpErrorCode(c) == [NoError EXCEPT !.kind = "HttpErrorCode", !.code = c]
Timeout == [NoError EXCEPT !.kind = "Timeout"]
Json == [NoError EXCEPT !.kind = "Json"]

\* net::SocketAddr
SocketAddr(ip, port) == [ip |-> ip, port |-> port]

Localhost == <<127, 0, 0, 1>>

\* impl Default for SimpleHttpTransport
DefaultTransport ==
    [addr |-> SocketAddr(Localhost, DEFAULT_PORT),
     path |-> <<"/">>,
     timeout |-> DEFAULT_TIMEOUT,
     basic_auth |-> None]

(***************************************************************************)
(* Address resolution, (hostname, port).to_socket_addrs(): the names the   *)
(* resolver of the model knows.  "lh" has one address, "db" two, "mt" is   *)
(* known with no address, and every other name fails to resolve.           *)
(***************************************************************************)
HostLh == <<"l", "h">>
HostDb == <<"d", "b">>
HostMt == <<"m", "t">>
HostNx == <<"n", "x">>

LookupHost(host) ==
    CASE host = HostLh -> [ok |-> TRUE, ips |-> <<Localhost>>]
      [] host = HostDb -> [ok |-> TRUE, ips |-> <<(<<10, 0, 0, 2>>), (<<10, 0, 0, 3>>)>>]
      [] host = HostMt -> [ok |-> TRUE, ips |-> <<>>]
      [] OTHER -> [ok |-> FALSE, ips |-> <<>>]

\* Ok(the addresses of host, each with the port), or Err(io::Error).
ToSocketAddrs(host, port) ==
    LET r == LookupHost(host)
    IN  [ok |-> r.ok,
         addrs |-> [i \in 1..Len(r.ips) |-> SocketAddr(r.ips[i], port)]]

(***************************************************************************)
(* impl Builder.  A setter takes the configuration under construction,     *)
(* self.tp, and yields it changed.  url yields a Result: ok, the error,    *)
(* and the value self.tp holds when url returns.                           *)
(***************************************************************************)
SchemeSep == <<":", "/", "/">>
SchemeHttp == <<"h", "t", "t", "p">>
SchemeHttps == <<"h", "t", "t", "p", "s">>
BasicPrefix == <<"B", "a", "s", "i", "c", " ">>

ReasonScheme == "scheme schould be http or https"
ReasonPort == "invalid port"
ReasonColon == "unexpected extra colon"
ReasonHostname == "invalid hostname: error extracting socket address"

\* Builder::new
BuilderNew == DefaultTransport

\* BuilderTimeout starting again from the default configuration.
BuilderTimeoutFromDefault(tp, d) == [DefaultTransport EXCEPT !.timeout = d]

\* Builder::timeout
BuilderTimeout(tp, d) == [tp EXCEPT !.timeout = d]

\* UrlScheme with the fallback port of http given to https as well.
UrlSchemeHttpsAsHttp(url) ==
    LET split == SplitN2(url, SchemeSep)
        s == split[1]
    IN  IF Len(split) = 1
        THEN [ok |-> TRUE, fallback_port |-> DEFAULT_PORT, after_scheme |-> s]
        ELSE IF s = SchemeHttp \/ s = SchemeHttps
        THEN [ok |-> TRUE, fallback_port |-> HTTP_PORT, after_scheme |-> split[2]]
        ELSE [ok |-> FALSE, fallback_port |-> DEFAULT_PORT, after_scheme |-> split[2]]

\* Lines 247-268, (1) split scheme: the fallback port and the text after
\* the scheme; not ok for a scheme that is neither http nor https.
UrlScheme(url) ==
    LET split == SplitN2(url, SchemeSep)
        s == split[1]
    IN  IF Len(split) = 1
        THEN [ok |-> TRUE, fallback_port |-> DEFAULT_PORT, after_scheme |-> s]
        ELSE IF s = SchemeHttp
        THEN [ok |-> TRUE, fallback_port |-> HTTP_PORT, after_scheme |-> split[2]]
        ELSE IF s = SchemeHttps
        THEN [ok |-> TRUE, fallback_port |-> HTTPS_PORT, after_scheme |-> split[2]]
        ELSE [ok |-> FALSE, fallback_port |-> DEFAULT_PORT, after_scheme |-> split[2]]

\* Lines 270-276, (2) split off path.
UrlPath(after_scheme) ==
    LET slash == Find(after_scheme, <<"/">>)
    IN  IF slash >= 0
        THEN [before_path |-> UpTo(after_scheme, slash), path |-> From(after_scheme, slash)]
        ELSE [before_path |-> after_scheme, path |-> <<"/">>]

\* Lines 278-282, (3) split off auth part.
UrlAfterAuth(before_path) ==
    LET split == SplitN2(before_path, <<"@">>)
    IN  IF Len(split) = 2 THEN split[2] ELSE split[1]

\* Lines 286-292: the port, from the second item of the split on ":".
UrlPort(split, fallback_port) ==
    IF Len(split) >= 2 THEN ParseU16(split[2])
    ELSE [ok |-> TRUE, val |-> fallback_port]

\* UrlSetAddr with self.tp.path set before the hostname is resolved.
UrlSetAddrPathFirst(tp, url, hostname, port, path) ==
    LET resolved == ToSocketAddrs(hostname, port)
        withPath == [tp EXCEPT !.path = path]
    IN  IF ~resolved.ok
        THEN [ok |-> FALSE, err |-> SocketError("resolve"), tp |-> withPath]
        ELSE IF resolved.addrs = <<>>
        THEN [ok |-> FALSE, err |-> InvalidUrl(url, ReasonHostname), tp |-> withPath]
        ELSE [ok |-> TRUE, err |-> NoError,
              tp |-> [withPath EXCEPT !.addr = resolved.addrs[1]]]

\* Lines 298-303: resolve, then set self.tp.addr and self.tp.path.
UrlSetAddr(tp, url, hostname, port, path) ==
    LET resolved == ToSocketAddrs(hostname, port)
    IN  IF ~resolved.ok
        THEN [ok |-> FALSE, err |-> SocketError("resolve"), tp |-> tp]
        ELSE IF resolved.addrs = <<>>
        THEN [ok |-> FALSE, err |-> InvalidUrl(url, ReasonHostname), tp |-> tp]
        ELSE [ok |-> TRUE, err |-> NoError,
              tp |-> [tp EXCEPT !.addr = resolved.addrs[1], !.path = path]]

\* BuilderUrl looking for a third segment before it parses the second.
BuilderUrlColonFirst(tp, url) ==
    LET scheme == UrlScheme(url)
        parts == UrlPath(scheme.after_scheme)
        after_auth == UrlAfterAuth(parts.before_path)
        split == Split(after_auth, <<":">>)
        hostname == split[1]
        port == UrlPort(split, scheme.fallback_port)
    IN  IF ~scheme.ok
        THEN [ok |-> FALSE, err |-> InvalidUrl(url, ReasonScheme), tp |-> tp]
        ELSE IF Len(split) >= 3
        THEN [ok |-> FALSE, err |-> InvalidUrl(url, ReasonColon), tp |-> tp]
        ELSE IF ~port.ok
        THEN [ok |-> FALSE, err |-> InvalidUrl(url, ReasonPort), tp |-> tp]
        ELSE UrlSetAddr(tp, url, hostname, port.val, parts.path)

\* Builder::url
BuilderUrl(tp, url) ==
    LET scheme == UrlScheme(url)
        parts == UrlPath(scheme.after_scheme)
        after_auth == UrlAfterAuth(parts.before_path)
        split == Split(after_auth, <<":">>)
        hostname == split[1]
        port == UrlPort(split, scheme.fallback_port)
    IN  IF ~scheme.ok
        THEN [ok |-> FALSE, err |-> InvalidUrl(url, ReasonScheme), tp |-> tp]
        ELSE IF ~port.ok
        THEN [ok |-> FALSE, err |-> InvalidUrl(url, ReasonPort), tp |-> tp]
        ELSE IF Len(split) >= 3
        THEN [ok |-> FALSE, err |-> InvalidUrl(url, ReasonColon), tp |-> tp]
        ELSE UrlSetAddr(tp, url, hostname, port.val, parts.path)

\* Builder::auth: pass is an Option.
BuilderAuth(tp, user, pass) ==
    LET auth == user \o <<":">> \o (IF pass.some THEN pass.val ELSE <<>>)
    IN  [tp EXCEPT !.basic_auth = Some(BasicPrefix \o Base64Encode(auth))]

\* BuilderCookieAuth adding the cookie to a header already there.
BuilderCookieAuthCombined(tp, cookie) ==
    [tp EXCEPT !.basic_auth =
        IF tp.basic_auth.some
        THEN Some(tp.basic_auth.val \o Base64Encode(cookie))
        ELSE Some(BasicPrefix \o Base64Encode(cookie))]

\* Builder::cookie_auth
BuilderCookieAuth(tp, cookie) ==
    [tp EXCEPT !.basic_auth = Some(BasicPrefix \o Base64Encode(cookie))]

\* Builder::build
BuilderBuild(tp) == tp

(***************************************************************************)
(* SimpleHttpTransport::request: what it writes.                           *)
(***************************************************************************)
ReqPost == <<"P", "O", "S", "T", " ">>
ReqVersion == <<" ", "H", "T", "T", "P", "/", "1", ".", "1", "\r", "\n">>
HdrConnection ==
    <<"C", "o", "n", "n", "e", "c", "t", "i", "o", "n", ":", " ",
      "C", "l", "o", "s", "e", "\r", "\n">>
HdrContentType ==
    <<"C", "o", "n", "t", "e", "n", "t", "-", "T", "y", "p", "e", ":", " ",
      "a", "p", "p", "l", "i", "c", "a", "t", "i", "o", "n", "/",
      "j", "s", "o", "n", "\r", "\n">>
HdrContentLength ==
    <<"C", "o", "n", "t", "e", "n", "t", "-", "L", "e", "n", "g", "t", "h", ":", " ">>
HdrAuthorization ==
    <<"A", "u", "t", "h", "o", "r", "i", "z", "a", "t", "i", "o", "n", ":", " ">>

\* WriteChunks with the Authorization header written first of the headers
\* and the length of the body counted without its last byte.
WriteChunksReordered(tp, body) ==
    << ReqPost, tp.path, ReqVersion >>
    \o (IF tp.basic_auth.some
        THEN << HdrAuthorization, tp.basic_auth.val, CRLF >>
        ELSE <<>>)
    \o << HdrConnection, HdrContentType,
          HdrContentLength, UsizeToString(Len(body) - 1), CRLF,
          CRLF, body >>

\* The arguments of the write_all calls of request, in the order made.
WriteChunks(tp, body) ==
    << ReqPost, tp.path, ReqVersion,
       HdrConnection, HdrContentType,
       HdrContentLength, UsizeToString(Len(body)), CRLF >>
    \o (IF tp.basic_auth.some
        THEN << HdrAuthorization, tp.basic_auth.val, CRLF >>
        ELSE <<>>)
    \o << CRLF, body >>

(***************************************************************************)
(* SimpleHttpTransport::request: how it reads the status line.             *)
(***************************************************************************)
HttpPrefix == <<"H", "T", "T", "P", "/", "1", ".", "1", " ">>

\* Lines 92-98 on the first line of the response: "parse_error", "panic"
\* (the slice [9..12] does not end on a character boundary) or "ok" with the
\* response code.
ParseStatus(http_response) ==
    IF Len(http_response) < STATUS_MIN_LEN \/ ~StartsWith(http_response, HttpPrefix)
    THEN [out |-> "parse_error", code |-> 0]
    ELSE IF ~IsCharBoundary(http_response, STATUS_MIN_LEN)
    THEN [out |-> "panic", code |-> 0]
    ELSE LET n == ParseU16(SubSeq(http_response, STATUS_CODE_AT + 1, STATUS_MIN_LEN))
         IN  IF n.ok THEN [out |-> "ok", code |-> n.val]
             ELSE [out |-> "parse_error", code |-> 0]

\* Result<R, Error> of request, and a panic of the call.
Pending == [kind |-> "none", val |-> JNull, err |-> NoError]
Ok(v) == [kind |-> "Ok", val |-> v, err |-> NoError]
Err(e) == [kind |-> "Err", val |-> JNull, err |-> e]
Panicked == [kind |-> "Panic", val |-> JNull, err |-> NoError]

\* DecodeBody reporting the HTTP code only for a 200, the test inverted.
DecodeBodyInverted(rtype, response_code, resp_body) ==
    LET s == FromStr(rtype, resp_body)
    IN  IF s.ok THEN Ok(s.val)
        ELSE IF response_code = HTTP_OK THEN Err(HttpErrorCode(response_code))
        ELSE Err(Json)

\* DecodeBody giving up on any status but 200 before it decodes.
DecodeBodyStatusFirst(rtype, response_code, resp_body) ==
    LET s == FromStr(rtype, resp_body)
    IN  IF response_code # HTTP_OK THEN Err(HttpErrorCode(response_code))
        ELSE IF s.ok THEN Ok(s.val)
        ELSE Err(Json)

\* Lines 106-116: the result of request from the body line.
DecodeBody(rtype, response_code, resp_body) ==
    LET s == FromStr(rtype, resp_body)
    IN  IF s.ok THEN Ok(s.val)
        ELSE IF response_code # HTTP_OK THEN Err(HttpErrorCode(response_code))
        ELSE Err(Json)

(***************************************************************************)
(* The inputs of the model.                                                *)
(***************************************************************************)
\* The calls of request that may run, each on a thread of its own.
Calls == {1, 2}

\* Payloads handed to request.
Payloads ==
    {JNull,
     JStr(<<"a", "\n", "b">>),
     JArr(<<JNum(10), JStr(<<"x", "\t">>)>>),
     Unserializable}

\* What a server may answer as a first line.
StatusLines ==
    {<<"H", "T", "T", "P", "/", "1", ".", "1", " ", "2", "0", "0", " ", "O", "K", "\r", "\n">>,
     <<"H", "T", "T", "P", "/", "1", ".", "1", " ", "4", "0", "4", " ", "N", "F", "\r", "\n">>,
     <<"H", "T", "T", "P", "/", "1", ".", "0", " ", "2", "0", "0", " ", "O", "K", "\r", "\n">>,
     <<"H", "T", "T", "P", "/", "1", ".", "1", " ", "2", "x", "0", " ", "O", "K", "\r", "\n">>,
     <<"H", "T", "T", "P", "/", "1", ".", "1", " ", "+", "2", "0", " ", "O", "K", "\r", "\n">>,
     <<"H", "T", "T", "P", "/", "1", ".", "1", " ", "2", "0", "C3", "A9", "\r", "\n">>,
     <<"H", "T", "T", "P", "/", "1", ".", "1", " ", "\r", "\n">>,
     <<"H", "T", "T", "P", "/", "1", ".", "1", " ", "5", "0", "0">>,
     <<"H", "T", "T", "P", "/", "1", ".">>}

\* Header lines, one of them with a byte that is not UTF-8, the separator
\* and a bare line feed.
HeaderLines ==
    {<<"S", "e", "r", "v", "e", "r", ":", " ", "x", "\r", "\n">>,
     <<"S", "e", "r", "v", "e", "r", ":", " ", "FF", "\r", "\n">>,
     CRLF,
     LF}

\* Body lines: valid and invalid JSON, ended by "\n" or by the end of stream.
BodyLines ==
    {<<"7", "\r", "\n">>,
     <<"[", "1", ",", "2", "]">>,
     <<"{", "o", "o", "p", "s", "\n">>}

\* The JSON of each serializable payload, sent back as one line.
EchoLines == {ToVec(p) \o LF : p \in {q \in Payloads : Serialize(q).ok}}

\* Every line read_line may yield: the server is free to send any of them at
\* any point of the response.
Lines == StatusLines \cup HeaderLines \cup BodyLines \cup EchoLines

\* read_line reads into a String: bytes that are no UTF-8 make it fail with
\* InvalidData.  "FF" stands for a byte that appears in no UTF-8 text.
IsUtf8(line) == \A i \in 1..Len(line) : line[i] # "FF"

\* A line read_line yields without its "\n" ends at the end of the stream.
Terminated(line) == line[Len(line)] = "\n"

\* The io::Error kinds a read of the connection fails with.
ReadErrors == {"WouldBlock", "ConnectionReset"}

\* The configurations the calls run on: built by the Builder, with each
\* timeout up to MaxTimeout ticks.
EngineTransports ==
    {BuilderBuild(BuilderTimeout(tp, d)) :
        tp \in {BuilderNew,
                BuilderCookieAuth(
                    BuilderUrl(BuilderNew,
                               <<"h", "t", "t", "p", ":", "/", "/", "d", "b", ":",
                                 "2", "2", "/", "w">>).tp,
                    <<"c", ":", "k">>)},
        d \in 0..MaxTimeout}

\* The parts the URLs of the model are put together from.
UrlSchemes ==
    {<<>>,
     SchemeHttp \o SchemeSep,
     SchemeHttps \o SchemeSep,
     <<"h", "t", "t", "p", "x">> \o SchemeSep}

UrlUsers == {<<>>, <<"u", ":", "p", "@">>}

UrlHosts == {HostLh, HostMt, HostNx}

UrlPorts ==
    {<<>>,
     <<":", "2", "2">>,
     <<":", "+", "2", "2">>,
     <<":", "2", "x">>,
     <<":">>,
     <<":", "7", "0", "0", "0", "0">>,
     <<":", "2", "2", ":", "1">>,
     <<":", "x", ":", "1">>,
     <<":", "2", "2", ":">>,
     <<":", ":", "1">>}

UrlPaths == {<<>>, <<"/">>, <<"/", "w", "?", "q", "=", "1">>}

\* A URL as the parts it is put together from, and its text.
UrlOf(sc, us, ho, po, pa) == [sc |-> sc, us |-> us, ho |-> ho, po |-> po, pa |-> pa]
UrlText(u) == u.sc \o u.us \o u.ho \o u.po \o u.pa
NoUrl == UrlOf(<<>>, <<>>, <<>>, <<>>, <<>>)

\* Every scheme, host and port with no user and no path; and every scheme,
\* user and path on a host of two addresses, with and without a port.
Urls ==
    {UrlOf(sc, <<>>, ho, po, <<>>) :
        sc \in UrlSchemes, ho \in UrlHosts, po \in UrlPorts}
    \cup
    {UrlOf(sc, us, HostDb, po, pa) :
        sc \in UrlSchemes, us \in UrlUsers, po \in {<<>>, <<":", "2", "2">>},
        pa \in UrlPaths}

\* Durations given to timeout(): 5 ms and 100 ms, in ticks.
BuilderTimeouts == {1, 20}

AuthUsers == {<<"u">>, <<"m", "e">>}
AuthPasses == {None, Some(<<>>), Some(<<"p", "w">>)}
Cookies == {<<"u", ":", "p", "w">>, <<"c", "k">>}

(***************************************************************************)
(* The state.                                                              *)
(***************************************************************************)
VARIABLES
    now,        \* Instant::now(), in ticks
    transport,  \* the SimpleHttpTransport the calls share (&self)
    callers,    \* the calls that run in this behaviour
    call,       \* per call of request: its locals and its connection
    builder,    \* the Builder chain: self.tp, and where the chain stands
    trace       \* what the Builder chain was given (history)

vars == <<now, transport, callers, call, builder, trace>>

engineVars == <<now, transport, callers, call>>
builderVars == <<builder, trace>>

\* A call that has not started.
IdleCall ==
    [pc |-> "idle",           \* where the call stands in request/get_line
     stage |-> "none",        \* the get_line call being served: status, headers, body
     payload |-> JNull,       \* req
     rtype |-> "value",       \* R
     deadline |-> 0,          \* request_deadline
     sock |-> "none",         \* the TcpStream: none, open, closed
     conns |-> 0,             \* connections opened so far (history)
     body |-> <<>>,           \* body
     wi |-> 0,                \* the write_all call to make next
     written |-> <<>>,        \* the bytes written to the connection
     flushed |-> FALSE,       \* flush returned Ok
     readStart |-> 0,         \* when the pending read of the socket began
     part |-> 0,              \* bytes of an unfinished line held by read_line:
                              \* 0 for none, else 1 or 2 by their parity
     wake |-> 0,              \* when the pending sleep ends
     eof |-> FALSE,           \* the stream has ended
     reads |-> FALSE,         \* a read of the connection was attempted (history)
     lastRead |-> "none",     \* the outcome of the last read_line (history)
     statusLine |-> <<>>,     \* http_response
     code |-> 0,              \* response_code
     hdrs |-> 0,              \* header lines discarded
     sepSeen |-> FALSE,       \* the "\r\n" line was read
     bodyLine |-> <<>>,       \* resp_body
     result |-> Pending]      \* what request returned

\* Return keeping the socket of a call that timed out.
ReturnLeakingOnTimeout(rec, res) ==
    [rec EXCEPT !.pc = "done",
                !.result = res,
                !.sock = IF rec.sock = "open" /\ res.err.kind # "Timeout"
                         THEN "closed" ELSE rec.sock]

\* request returns res: its locals, the socket among them, are dropped.
Return(rec, res) ==
    [rec EXCEPT !.pc = "done",
                !.result = res,
                !.sock = IF rec.sock = "open" THEN "closed" ELSE rec.sock]

\* Builder::new(): the chain before its first setter.
NewBuilder == [tp |-> BuilderNew, at |-> "building", err |-> NoError, n |-> 0]

\* What the chain was given: the last setter called, the argument of a url
\* call and self.tp before it (while url is the last call), the arguments
\* of the most recent auth or cookie_auth call and how many there were,
\* the argument of the most recent timeout call and that of the most recent
\* url call that returned Ok.
NoTrace ==
    [last |-> "new", url |-> NoUrl, before |-> BuilderNew, cred |-> None, nauth |-> 0,
     tmo |-> None, set |-> None]

\* Put with request_deadline kept in one place for all the calls.
PutSharingDeadline(c, rec) ==
    call' = [d \in Calls |->
                IF d = c THEN rec ELSE [call[d] EXCEPT !.deadline = rec.deadline]]

\* A step of call c writes the locals of c.
Put(c, rec) == call' = [call EXCEPT ![c] = rec]

\* What the calls are given and what their servers send.  Calls that run
\* side by side are given one payload and fewer lines; a call that runs
\* alone is given all of them.
Alone == Cardinality(callers) <= 1
Requests == IF Alone THEN Payloads ELSE {JNull}
ResultTypes == IF Alone THEN PayloadTypes ELSE {"value"}
ServerLines ==
    IF Alone THEN Lines
    ELSE {<<"H", "T", "T", "P", "/", "1", ".", "1", " ", "2", "0", "0", "\r", "\n">>,
          <<"H", "T", "T", "P", "/", "1", ".", "1", " ", "4", "0", "4", "\r", "\n">>,
          CRLF,
          <<"7", "\r", "\n">>}

\* Lines 92-116: what request does with the line get_line returned, by the
\* get_line call it came from.
GotLine(rec, line) ==
    CASE rec.stage = "status" ->
           LET st == ParseStatus(line)
               r1 == [rec EXCEPT !.statusLine = line]
           IN  IF st.out = "ok"
               THEN [r1 EXCEPT !.code = st.code, !.stage = "headers", !.pc = "gl_check"]
               ELSE IF st.out = "panic" THEN Return(r1, Panicked)
               ELSE Return(r1, Err(HttpParseError))
      [] rec.stage = "headers" ->
           IF line # CRLF
           THEN [rec EXCEPT !.hdrs = @ + 1, !.pc = "gl_check"]
           ELSE [rec EXCEPT !.sepSeen = TRUE, !.stage = "body", !.pc = "gl_check"]
      [] rec.stage = "body" ->
           Return([rec EXCEPT !.bodyLine = line],
                  DecodeBody(rec.rtype, rec.code, line))

(***************************************************************************)
(* The actions of a call of request, c.                                    *)
(***************************************************************************)
\* Line 58: the call begins and fixes its deadline.
Start(c) ==
    /\ c \in callers
    /\ call[c].pc = "idle"
    /\ \E req \in Requests, R \in ResultTypes :
         Put(c, [call[c] EXCEPT !.pc = "connect",
                                !.payload = req,
                                !.rtype = R,
                                !.deadline = now + transport.timeout])
    /\ UNCHANGED <<now, transport, callers, builderVars>>

\* Line 59: TcpStream::connect_timeout.  A zero timeout is an error; a
\* connect times out no sooner than its timeout.
Connect(c) ==
    /\ call[c].pc = "connect"
    /\ \/ /\ transport.timeout > 0
          /\ Put(c, [call[c] EXCEPT !.pc = "set_timeouts",
                                    !.sock = "open",
                                    !.conns = @ + 1])
       \/ \E e \in {"InvalidInput", "ConnectionRefused", "TimedOut"} :
            /\ (e = "InvalidInput") <=> (transport.timeout = 0)
            /\ (e = "TimedOut") => now >= call[c].deadline
            /\ Put(c, Return(call[c], Err(SocketError(e))))
    /\ UNCHANGED <<now, transport, callers, builderVars>>

\* Lines 61-62: set_read_timeout, set_write_timeout.
SetTimeouts(c) ==
    /\ call[c].pc = "set_timeouts"
    /\ \/ Put(c, [call[c] EXCEPT !.pc = "serialize"])
       \/ Put(c, Return(call[c], Err(SocketError("Other"))))
    /\ UNCHANGED <<now, transport, callers, builderVars>>

\* Line 65: serde_json::to_vec(&req)?
SerializeBody(c) ==
    /\ call[c].pc = "serialize"
    /\ LET body == Serialize(call[c].payload)
       IN  IF body.ok
           THEN Put(c, [call[c] EXCEPT !.pc = "write", !.body = body.bytes, !.wi = 1])
           ELSE Put(c, Return(call[c], Err(Json)))
    /\ UNCHANGED <<now, transport, callers, builderVars>>

\* Lines 68-84: the next write_all.  One that fails may have written a
\* part of its bytes: none, or all but the last.
WriteAll(c) ==
    /\ call[c].pc = "write"
    /\ LET chunks == WriteChunks(transport, call[c].body)
           chunk == chunks[call[c].wi]
       IN  \/ Put(c, [call[c] EXCEPT
                        !.written = @ \o chunk,
                        !.wi = @ + 1,
                        !.pc = IF call[c].wi = Len(chunks) THEN "flush" ELSE "write"])
           \/ \E e \in {"WouldBlock", "BrokenPipe"}, k \in {0, Len(chunk) - 1} :
                /\ k >= 0
                /\ Put(c, Return([call[c] EXCEPT !.written = @ \o SubSeq(chunk, 1, k)],
                                 Err(SocketError(e))))
    /\ UNCHANGED <<now, transport, callers, builderVars>>

\* Flush going on to read the response whether flush failed or not.
FlushUnchecked(c) ==
    /\ call[c].pc = "flush"
    /\ \/ Put(c, [call[c] EXCEPT !.flushed = TRUE, !.pc = "gl_check", !.stage = "status"])
       \/ Put(c, [call[c] EXCEPT !.pc = "gl_check", !.stage = "status"])
    /\ UNCHANGED <<now, transport, callers, builderVars>>

\* Line 85: sock.flush()?
Flush(c) ==
    /\ call[c].pc = "flush"
    /\ \/ Put(c, [call[c] EXCEPT !.flushed = TRUE, !.pc = "gl_check", !.stage = "status"])
       \/ Put(c, Return(call[c], Err(SocketError("Other"))))
    /\ UNCHANGED <<now, transport, callers, builderVars>>

(***************************************************************************)
(* get_line, called by request with its deadline.                          *)
(***************************************************************************)
\* GetLineCheck reading once more at the deadline itself.
GetLineCheckInclusive(c) ==
    /\ call[c].pc = "gl_check"
    /\ IF call[c].deadline >= now
       THEN Put(c, [call[c] EXCEPT !.pc = "gl_read", !.readStart = now])
       ELSE Put(c, Return(call[c], Err(Timeout)))
    /\ UNCHANGED <<now, transport, callers, builderVars>>

\* Line 192 and 202: while deadline > Instant::now() ... Err(Error::Timeout)
GetLineCheck(c) ==
    /\ call[c].pc = "gl_check"
    /\ IF call[c].deadline > now
       THEN Put(c, [call[c] EXCEPT !.pc = "gl_read", !.readStart = now])
       ELSE Put(c, Return(call[c], Err(Timeout)))
    /\ UNCHANGED <<now, transport, callers, builderVars>>

\* ReadZero failing the call at the end of the stream.
ReadZeroFailing(c) ==
    /\ call[c].pc = "gl_read"
    /\ call[c].part = 0
    /\ Put(c, Return([call[c] EXCEPT !.eof = TRUE,
                                     !.reads = TRUE,
                                     !.lastRead = "zero"],
                     Err(SocketError("UnexpectedEof"))))
    /\ UNCHANGED <<now, transport, callers, builderVars>>

\* Lines 193-195: read_line yields Ok(0), the end of the stream; sleep.
ReadZero(c) ==
    /\ call[c].pc = "gl_read"
    /\ call[c].part = 0
    /\ Put(c, [call[c] EXCEPT !.pc = "gl_sleep",
                              !.eof = TRUE,
                              !.reads = TRUE,
                              !.lastRead = "zero",
                              !.wake = now + SLEEP_TICKS])
    /\ UNCHANGED <<now, transport, callers, builderVars>>

\* Line 195: thread::sleep returns, no sooner than asked; back to line 192.
Sleep(c) ==
    /\ call[c].pc = "gl_sleep"
    /\ now >= call[c].wake
    /\ Put(c, [call[c] EXCEPT !.pc = "gl_check"])
    /\ UNCHANGED <<now, transport, callers, builderVars>>

\* Line 193: inside read_line a read of the socket yields bytes with no "\n"
\* among them; read_line keeps them and reads the socket again, without a
\* look at the deadline.
ReadPartial(c) ==
    /\ call[c].pc = "gl_read"
    /\ ~call[c].eof
    /\ Put(c, [call[c] EXCEPT !.part = IF @ = 1 THEN 2 ELSE 1,
                              !.reads = TRUE,
                              !.readStart = now])
    /\ UNCHANGED <<now, transport, callers, builderVars>>

\* Lines 193, 197, 199: the server has sent a line.  read_line yields it
\* and get_line returns it to request, or its bytes are no UTF-8 and
\* read_line fails.  A line with no "\n" is the last of the stream.
ReadLine(c) ==
    /\ call[c].pc = "gl_read"
    /\ ~call[c].eof
    /\ \E line \in ServerLines :
         /\ (call[c].stage = "headers" /\ line # CRLF) => call[c].hdrs < MaxHeaders
         /\ IF IsUtf8(line)
            THEN Put(c, GotLine([call[c] EXCEPT !.reads = TRUE,
                                                !.part = 0,
                                                !.lastRead = "line",
                                                !.eof = ~Terminated(line)],
                                line))
            ELSE Put(c, Return([call[c] EXCEPT !.reads = TRUE,
                                               !.lastRead = "InvalidData"],
                               Err(SocketError("InvalidData"))))
    /\ UNCHANGED <<now, transport, callers, builderVars>>

\* ReadErr taking a connection reset like an empty read: sleep and retry.
ReadErrRetried(c) ==
    /\ call[c].pc = "gl_read"
    /\ ~call[c].eof
    /\ \E e \in ReadErrors :
         /\ (e = "WouldBlock") => now >= call[c].readStart + transport.timeout
         /\ IF e = "WouldBlock"
            THEN Put(c, Return([call[c] EXCEPT !.reads = TRUE, !.lastRead = e],
                               Err(SocketError(e))))
            ELSE Put(c, [call[c] EXCEPT !.pc = "gl_sleep",
                                        !.reads = TRUE,
                                        !.lastRead = e,
                                        !.wake = now + SLEEP_TICKS])
    /\ UNCHANGED <<now, transport, callers, builderVars>>

\* Lines 193, 199: read_line fails.  A read with no data blocks for the
\* read timeout of the socket (self.timeout) and then fails with WouldBlock.
ReadErr(c) ==
    /\ call[c].pc = "gl_read"
    /\ ~call[c].eof
    /\ \E e \in ReadErrors :
         /\ (e = "WouldBlock") => now >= call[c].readStart + transport.timeout
         /\ Put(c, Return([call[c] EXCEPT !.reads = TRUE, !.lastRead = e],
                          Err(SocketError(e))))
    /\ UNCHANGED <<now, transport, callers, builderVars>>

\* Time passes while some call runs.
Tick ==
    /\ now < MaxTime
    /\ \E c \in callers : call[c].pc # "done"
    /\ now' = now + 1
    /\ UNCHANGED <<transport, callers, call, builderVars>>

(***************************************************************************)
(* The Builder chain: Builder::new() and then setters, ended by build() or *)
(* by a url() that fails.                                                  *)
(***************************************************************************)
Chain(b, tp) == [b EXCEPT !.tp = tp, !.n = @ + 1]

\* What a setter other than url leaves of the trace of the last url call.
Forget(tr, setter) ==
    [tr EXCEPT !.last = setter, !.url = NoUrl, !.before = BuilderNew]

\* .timeout(d)
CallTimeout ==
    /\ builder.at = "building"
    /\ builder.n < MaxChain
    /\ \E d \in BuilderTimeouts :
         /\ builder' = Chain(builder, BuilderTimeout(builder.tp, d))
         /\ trace' = [Forget(trace, "timeout") EXCEPT !.tmo = Some(d)]
    /\ UNCHANGED engineVars

\* .url(u): Ok(self) carries the chain on; Err(e) ends it, the builder dropped.
CallUrl ==
    /\ builder.at = "building"
    /\ builder.n < MaxChain
    /\ \E u \in Urls :
         LET r == BuilderUrl(builder.tp, UrlText(u))
         IN  /\ builder' = [Chain(builder, r.tp) EXCEPT
                              !.at = IF r.ok THEN "building" ELSE "failed",
                              !.err = r.err]
             /\ trace' = [trace EXCEPT !.last = "url", !.url = u, !.before = builder.tp,
                                       !.set = IF r.ok THEN Some(u) ELSE @]
    /\ UNCHANGED engineVars

\* .auth(user, pass)
CallAuth ==
    /\ builder.at = "building"
    /\ builder.n < MaxChain
    /\ \E user \in AuthUsers, pass \in AuthPasses :
         /\ builder' = Chain(builder, BuilderAuth(builder.tp, user, pass))
         /\ trace' = [Forget(trace, "auth") EXCEPT
                        !.nauth = @ + 1,
                        !.cred = Some([mode |-> "auth", user |-> user,
                                       pass |-> pass, cookie |-> <<>>])]
    /\ UNCHANGED engineVars

\* .cookie_auth(cookie)
CallCookieAuth ==
    /\ builder.at = "building"
    /\ builder.n < MaxChain
    /\ \E cookie \in Cookies :
         /\ builder' = Chain(builder, BuilderCookieAuth(builder.tp, cookie))
         /\ trace' = [Forget(trace, "cookie_auth") EXCEPT
                        !.nauth = @ + 1,
                        !.cred = Some([mode |-> "cookie", user |-> <<>>,
                                       pass |-> None, cookie |-> cookie])]
    /\ UNCHANGED engineVars

\* .build(): the transport the calls will share.
CallBuild ==
    /\ builder.at = "building"
    /\ builder' = [builder EXCEPT !.at = "built"]
    /\ transport' = BuilderBuild(builder.tp)
    /\ UNCHANGED <<now, callers, call, trace>>

EngineInit ==
    /\ now = 0
    /\ transport \in EngineTransports
    /\ call = [c \in Calls |-> IdleCall]
    /\ builder = NewBuilder
    /\ trace = NoTrace

Init == EngineInit /\ callers = {1}

Next ==
    \/ \E c \in Calls :
         \/ Start(c)
         \/ Connect(c)
         \/ SetTimeouts(c)
         \/ SerializeBody(c)
         \/ WriteAll(c)
         \/ Flush(c)
         \/ GetLineCheck(c)
         \/ ReadZero(c)
         \/ Sleep(c)
         \/ ReadPartial(c)
         \/ ReadLine(c)
         \/ ReadErr(c)
    \/ Tick

Spec == Init /\ [][Next]_vars

\* A step of call c, and the clock as the calls see it when no read of a
\* socket blocks for longer than the read timeout set at line 61.
Step(c) ==
    \/ Start(c)
    \/ Connect(c)
    \/ SetTimeouts(c)
    \/ SerializeBody(c)
    \/ WriteAll(c)
    \/ Flush(c)
    \/ GetLineCheck(c)
    \/ ReadZero(c)
    \/ Sleep(c)
    \/ ReadPartial(c)
    \/ ReadLine(c)
    \/ ReadErr(c)

TickTimely ==
    /\ \A c \in callers :
          call[c].pc = "gl_read" => now < call[c].readStart + transport.timeout
    /\ Tick

NextLive ==
    \/ \E c \in Calls : Step(c)
    \/ TickTimely

\* The thread of each call keeps running, every blocking call returns, and
\* the clock advances.
Fairness ==
    /\ WF_vars(TickTimely)
    /\ \A c \in Calls : WF_vars(Step(c))

SpecLive == Init /\ [][NextLive]_vars /\ Fairness

\* Two calls of request on one transport, each on a thread of its own, in
\* the last tick before the bound of the clock.
InitConcurrent ==
    /\ now = MaxTime - 1
    /\ transport \in {tp \in EngineTransports : tp.timeout = 1}
    /\ callers = Calls
    /\ call = [c \in Calls |-> IdleCall]
    /\ builder = NewBuilder
    /\ trace = NoTrace

SpecConcurrent == InitConcurrent /\ [][Next]_vars

BuilderInit ==
    /\ now = 0
    /\ transport = DefaultTransport
    /\ callers = {}
    /\ call = [c \in Calls |-> IdleCall]
    /\ builder = NewBuilder
    /\ trace = NoTrace

NextBuilder ==
    \/ CallTimeout
    \/ CallUrl
    \/ CallAuth
    \/ CallCookieAuth
    \/ CallBuild

SpecBuilder == BuilderInit /\ [][NextBuilder]_vars

(***************************************************************************)
(* Properties of request, checked under Spec.                              *)
(***************************************************************************)
Done(c) == call[c].pc = "done"

\* The call read its body line: the status line was valid, the "\r\n" line
\* was read and one further line came back from get_line.
ReachedBody(c) == Done(c) /\ call[c].bodyLine # <<>>

Decodes(c) == FromStr(call[c].rtype, call[c].bodyLine).ok

\* C1: a call whose body line fails to decode returns
\* Error::HttpErrorCode(c) for a status code c other than 200, and the
\* decode error, Error::Json, for the status code 200.
C1_DecodeFailure ==
    \A c \in Calls :
        (ReachedBody(c) /\ ~Decodes(c)) =>
            /\ call[c].code # 200 => call[c].result = Err(HttpErrorCode(call[c].code))
            /\ call[c].code = 200 => call[c].result = Err(Json)

\* A 404 with a body that is no JSON was read and reported as the code 404.
C1_Witness ==
    \E c \in Calls :
        /\ ReachedBody(c)
        /\ ~Decodes(c)
        /\ call[c].code = 404
        /\ call[c].bodyLine = <<"{", "o", "o", "p", "s", "\n">>
        /\ call[c].result.err.kind = "HttpErrorCode"
        /\ call[c].result.err.code = 404

\* C2: a call whose body line decodes as the payload type returns Ok with
\* the value a direct decode of that line gives, whatever the status code;
\* and a body line that is the JSON of the request's own payload comes back
\* as that payload.
C2_DecodeSuccess ==
    \A c \in Calls :
        /\ (ReachedBody(c) /\ Decodes(c)) =>
              call[c].result = Ok(FromStr(call[c].rtype, call[c].bodyLine).val)
        /\ (/\ ReachedBody(c)
            /\ call[c].bodyLine = call[c].body \o LF
            /\ TypeAccepts(call[c].rtype, call[c].payload)) =>
              call[c].result = Ok(call[c].payload)

\* A 404 whose body echoes a string payload with a line feed in it, after a
\* header line, came back as that payload.
C2_Witness ==
    \E c \in Calls :
        /\ ReachedBody(c)
        /\ call[c].code = 404
        /\ call[c].hdrs > 0
        /\ call[c].payload = JStr(<<"a", "\n", "b">>)
        /\ call[c].bodyLine = <<"\"", "a", "\\", "n", "b", "\"", "\n">>
        /\ call[c].result = Ok(call[c].payload)

\* The call ended inside get_line, with no line for request: after the
\* flush only get_line returns a timeout or a socket error.
EndedWaiting(c) ==
    /\ Done(c)
    /\ call[c].flushed
    /\ call[c].result.kind = "Err"
    /\ call[c].result.err.kind \in {"Timeout", "SocketError"}

\* C3, as claimed: a call that waited for a line until its deadline passed
\* and met no other I/O failure than the read timeout of its socket fails
\* with Error::Timeout, at whichever of the three reads it waited.
C3_TimeoutWhenNoLine ==
    \A c \in Calls :
        (/\ EndedWaiting(c)
         /\ now >= call[c].deadline
         /\ call[c].result.err.io # "ConnectionReset") =>
            call[c].result = Err(Timeout)

\* The request of the claim: the request line and the headers in the order
\* given, the Authorization header only if one is configured, a blank line,
\* the body.
ExpectedRequest(tp, body) ==
    <<"P", "O", "S", "T", " ">> \o tp.path
    \o <<" ", "H", "T", "T", "P", "/", "1", ".", "1">> \o CRLF
    \o <<"C", "o", "n", "n", "e", "c", "t", "i", "o", "n", ":", " ",
         "C", "l", "o", "s", "e">> \o CRLF
    \o <<"C", "o", "n", "t", "e", "n", "t", "-", "T", "y", "p", "e", ":", " ",
         "a", "p", "p", "l", "i", "c", "a", "t", "i", "o", "n", "/",
         "j", "s", "o", "n">> \o CRLF
    \o <<"C", "o", "n", "t", "e", "n", "t", "-", "L", "e", "n", "g", "t", "h", ":", " ">>
    \o UsizeToString(Len(body)) \o CRLF
    \o (IF tp.basic_auth.some
        THEN <<"A", "u", "t", "h", "o", "r", "i", "z", "a", "t", "i", "o", "n", ":", " ">>
             \o tp.basic_auth.val \o CRLF
        ELSE <<>>)
    \o CRLF
    \o body

\* C4: once the flush is done, and from then on, the bytes the call wrote
\* are exactly the request of the claim for the shared configuration and
\* the serialized payload.
C4_RequestBytes ==
    \A c \in Calls :
        call[c].flushed =>
            /\ Serialize(call[c].payload).ok
            /\ call[c].written =
                 ExpectedRequest(transport, Serialize(call[c].payload).bytes)

\* A request with an Authorization header and a body of ten bytes, byte for
\* byte.
C4_Witness ==
    \E c \in Calls :
        /\ call[c].flushed
        /\ call[c].written =
             <<"P", "O", "S", "T", " ", "/", "w", " ", "H", "T", "T", "P", "/", "1",
               ".", "1", "\r", "\n", "C", "o", "n", "n", "e", "c", "t", "i", "o", "n",
               ":", " ", "C", "l", "o", "s", "e", "\r", "\n", "C", "o", "n", "t", "e",
               "n", "t", "-", "T", "y", "p", "e", ":", " ", "a", "p", "p", "l", "i", "c",
               "a", "t", "i", "o", "n", "/", "j", "s", "o", "n", "\r", "\n", "C", "o",
               "n", "t", "e", "n", "t", "-", "L", "e", "n", "g", "t", "h", ":", " ", "1",
               "0", "\r", "\n", "A", "u", "t", "h", "o", "r", "i", "z", "a", "t", "i",
               "o", "n", ":", " ", "B", "a", "s", "i", "c", " ", "Y", "z", "p", "r", "\r",
               "\n", "\r", "\n", "[", "1", "0", ",", "\"", "x", "\\", "t", "\"", "]">>

IsPrefix(p, s) == Len(p) <= Len(s) /\ SubSeq(s, 1, Len(p)) = p

\* C9: a call opens at most one connection, writes no more than the one
\* request on it, and has closed the connection it opened whenever it has
\* returned, whatever it returned.
C9_OneConnection ==
    \A c \in Calls :
        /\ call[c].conns <= 1
        /\ call[c].sock = "open" => call[c].conns = 1 /\ ~Done(c)
        /\ Done(c) => call[c].sock = (IF call[c].conns = 1 THEN "closed" ELSE "none")
        /\ call[c].written # <<>> =>
             IsPrefix(call[c].written, ExpectedRequest(transport, call[c].body))

\* A call that timed out waiting for the response, its connection closed.
C9_Witness ==
    \E c \in Calls :
        /\ Done(c)
        /\ call[c].result = Err(Timeout)
        /\ call[c].conns = 1
        /\ call[c].sock = "closed"

\* C10: nothing is written before the payload is serialized, a payload
\* that fails to serialize leaves nothing written and nothing read, no read
\* is attempted before every write and the flush succeeded, and a call that
\* failed in a write or in the flush returned a socket error without a read.
C10_Ordering ==
    \A c \in Calls :
        /\ call[c].written # <<>> =>
             /\ Serialize(call[c].payload).ok
             /\ call[c].body = Serialize(call[c].payload).bytes
        /\ (Done(c) /\ ~Serialize(call[c].payload).ok) =>
             /\ call[c].written = <<>>
             /\ ~call[c].reads
             /\ call[c].result.kind = "Err"
             /\ call[c].result.err.kind \in {"Json", "SocketError"}
        /\ (call[c].reads \/ call[c].pc \in {"gl_check", "gl_read", "gl_sleep"}) =>
             /\ call[c].flushed
             /\ call[c].written = ExpectedRequest(transport, call[c].body)
        /\ (Done(c) /\ call[c].wi >= 1 /\ ~call[c].flushed) =>
             /\ call[c].result.kind = "Err"
             /\ call[c].result.err.kind = "SocketError"
             /\ ~call[c].reads

\* A call whose write failed part of the way: a socket error, and no read.
C10_Witness ==
    \E c \in Calls :
        /\ Done(c)
        /\ call[c].wi > 1
        /\ ~call[c].flushed
        /\ call[c].written # <<>>
        /\ call[c].result.err.kind = "SocketError"
        /\ ~call[c].reads

(***************************************************************************)
(* Properties of the Builder, checked under SpecBuilder.                   *)
(***************************************************************************)
\* The last call of the chain was url, on the URL trace.url.
UrlCalled == trace.last = "url"

\* Schemes url supports (none, http, https), and one it does not.
SupportedSchemes ==
    {<<>>,
     <<"h", "t", "t", "p", ":", "/", "/">>,
     <<"h", "t", "t", "p", "s", ":", "/", "/">>}
OtherSchemes == {<<"h", "t", "t", "p", "x", ":", "/", "/">>}

\* Port texts: a decimal port, a port segment that is no number (also an
\* empty one), and a second colon after the port segment.
Port22 == <<":", "2", "2">>
NonNumericPorts == {<<":", "2", "x">>, <<":">>, <<":", "x", ":", "1">>}
ExtraColonPorts == {<<":", "2", "2", ":", "1">>, <<":", "x", ":", "1">>}

\* Resolving the host gives no address: it fails, or gives an empty set.
Unresolvable(ho) == ~LookupHost(ho).ok \/ LookupHost(ho).ips = <<>>

\* C5, as claimed: a url call whose scheme and port are accepted and whose
\* hostname fails to resolve, or resolves to no address, ends in
\* Error::InvalidUrl with the reason that the hostname is no address.
C5_ResolutionFailureIsInvalidUrl ==
    (/\ UrlCalled
     /\ trace.url.sc \in SupportedSchemes
     /\ trace.url.po \in {<<>>, Port22}
     /\ Unresolvable(trace.url.ho)) =>
        /\ builder.at = "failed"
        /\ builder.err.kind = "InvalidUrl"
        /\ builder.err.reason = "invalid hostname: error extracting socket address"

\* C6: a URL with a scheme other than http and https, with a port segment
\* that is no number, or with a second colon after the port segment (the
\* authority taken after any user part) ends url in Error::InvalidUrl; and
\* whenever url ends in an error, self.tp is what it was before the call
\* and no configuration was built.
C6_UrlErrors ==
    /\ (/\ UrlCalled
        /\ \/ trace.url.sc \in OtherSchemes
           \/ trace.url.po \in NonNumericPorts
           \/ trace.url.po \in ExtraColonPorts) =>
          builder.at = "failed" /\ builder.err.kind = "InvalidUrl"
    /\ builder.at = "failed" =>
          /\ UrlCalled
          /\ builder.err # NoError
          /\ builder.tp = trace.before
          /\ transport = DefaultTransport
    /\ builder.at # "failed" => builder.err = NoError

\* A url call that failed on its scheme, after setters had changed the
\* path and the auth header: both are as before the call.
C6_Witness ==
    /\ UrlCalled
    /\ builder.at = "failed"
    /\ trace.url.sc \in OtherSchemes
    /\ trace.url.pa = <<"/">>
    /\ trace.before.basic_auth.some
    /\ trace.before.path = <<"/", "w", "?", "q", "=", "1">>
    /\ builder.tp = trace.before

\* The first address of a direct resolution of (host, port).
DirectAddr(ho, port) == ToSocketAddrs(ho, port).addrs[1]

\* C7: for a host that resolves, url on host:port, with or without a
\* supported scheme, a user part and a path, sets the address a direct
\* resolution of (host, port) gives; with no port it uses 80 for http, 443
\* for https and 8332 for no scheme.
C7_UrlAddress ==
    (/\ UrlCalled
     /\ trace.url.sc \in SupportedSchemes
     /\ ~Unresolvable(trace.url.ho)
     /\ trace.url.po \in {<<>>, Port22}) =>
        /\ builder.at # "failed"
        /\ builder.tp.addr =
             DirectAddr(trace.url.ho,
                        IF trace.url.po = Port22 THEN 22
                        ELSE IF trace.url.sc = <<>> THEN 8332
                        ELSE IF trace.url.sc = <<"h", "t", "t", "p", ":", "/", "/">> THEN 80
                        ELSE 443)

\* https with a user part and a path and no port: the first address of the
\* host, port 443.
C7_Witness ==
    /\ UrlCalled
    /\ builder.at = "building"
    /\ trace.url = UrlOf(<<"h", "t", "t", "p", "s", ":", "/", "/">>,
                         <<"u", ":", "p", "@">>, <<"d", "b">>, <<>>,
                         <<"/", "w", "?", "q", "=", "1">>)
    /\ builder.tp.addr = SocketAddr(<<10, 0, 0, 2>>, 443)

\* The credential string of the claim for the arguments of a call.
CredString(cr) ==
    IF cr.mode = "auth"
    THEN cr.user \o <<":">> \o (IF cr.pass.some THEN cr.pass.val ELSE <<>>)
    ELSE cr.cookie

\* C8: the auth header is absent while neither auth nor cookie_auth was
\* called, and is otherwise "Basic " and the base64 of the credential
\* string of the most recent of these calls alone; build hands it on.
C8_AuthHeader ==
    /\ builder.tp.basic_auth =
         IF trace.cred.some
         THEN Some(<<"B", "a", "s", "i", "c", " ">>
                   \o Base64Encode(CredString(trace.cred.val)))
         ELSE None
    /\ trace.cred.some <=> trace.nauth > 0
    /\ builder.at = "built" => transport.basic_auth = builder.tp.basic_auth

\* auth("me", None) called after another auth or cookie_auth, then build:
\* the header is "Basic bWU6", the base64 of "me:".
C8_Witness ==
    /\ builder.at = "built"
    /\ trace.nauth = 2
    /\ trace.cred.val.mode = "auth"
    /\ trace.cred.val.user = <<"m", "e">>
    /\ trace.cred.val.pass = None
    /\ transport.basic_auth =
         Some(<<"B", "a", "s", "i", "c", " ", "b", "W", "U", "6">>)

(***************************************************************************)
(* Properties of concurrent calls, checked under SpecConcurrent.           *)
(***************************************************************************)
\* What request returns, as told by what the call itself was given and read.
OwnOutcome(rec) ==
    IF rec.bodyLine # <<>>
    THEN rec.result = DecodeBody(rec.rtype, rec.code, rec.bodyLine)
    ELSE rec.result.kind \in {"Err", "Panic"}

\* C11: with calls running side by side on one transport, no step changes
\* the transport; a step of one call leaves the other call's locals, its
\* connection and deadline among them, as they were; a call opens one
\* connection of its own and keeps the deadline and the payload it began
\* with; and what a call returns is told by its own locals alone.
C11_CallsIndependent ==
    [][/\ transport' = transport
       /\ \A c \in Calls :
            call'[c] # call[c] =>
              /\ \A d \in Calls \ {c} : call'[d] = call[d]
              /\ call'[c].conns <= 1
              /\ call[c].pc # "idle" =>
                    /\ call'[c].deadline = call[c].deadline
                    /\ call'[c].payload = call[c].payload
                    /\ call'[c].rtype = call[c].rtype
              /\ call[c].pc = "idle" =>
                    call'[c].deadline = now + transport.timeout
              /\ call'[c].pc = "done" => OwnOutcome(call'[c])]_vars

\* Two calls that began at different times, each on a connection of its
\* own: one returned a payload, the other timed out.
C11_Witness ==
    /\ callers = Calls
    /\ Done(1) /\ Done(2)
    /\ call[1].conns = 1 /\ call[2].conns = 1
    /\ call[1].deadline # call[2].deadline
    /\ call[1].result = Ok(JNum(7))
    /\ call[2].result = Err(Timeout)

(***************************************************************************)
(* Properties of the response handling, checked under Spec.                *)
(***************************************************************************)
\* The three bytes at offsets 9, 10 and 11 of a first line are decimal digits.
ThreeDigits(line) ==
    /\ Len(line) >= 12
    /\ \A i \in 10..12 : IsDigit(line[i])

\* The first line is one the claims call valid: at least 12 long, begins
\* with "HTTP/1.1 ", three decimal digits after it.
ValidStatusLine(line) ==
    /\ Len(line) >= 12
    /\ SubSeq(line, 1, 9) = <<"H", "T", "T", "P", "/", "1", ".", "1", " ">>
    /\ ThreeDigits(line)

\* C12, as claimed: a finished call has a payload only if its status line
\* was valid, the "\r\n" line was read after it and one more line was read
\* and decoded; every other finished call has returned an error.
C12_PayloadOnlyAfterBody ==
    \A c \in callers :
        Done(c) =>
            /\ call[c].result.kind = "Ok" =>
                  /\ ParseStatus(call[c].statusLine).out = "ok"
                  /\ call[c].sepSeen
                  /\ call[c].bodyLine # <<>>
                  /\ FromStr(call[c].rtype, call[c].bodyLine) =
                        [ok |-> TRUE, val |-> call[c].result.val]
            /\ call[c].result.kind # "Ok" => call[c].result.kind = "Err"

\* C13, as claimed: a first line shorter than 12 or not beginning with
\* "HTTP/1.1 ", or with anything but three decimal digits at offsets 9-11,
\* ends the call in HttpParseError; and after HttpParseError no header or
\* body line was read.
C13_StatusLineErrors ==
    \A c \in callers :
        (Done(c) /\ call[c].statusLine # <<>>) =>
            /\ ~ValidStatusLine(call[c].statusLine) =>
                  call[c].result = Err(HttpParseError)
            /\ call[c].result = Err(HttpParseError) =>
                  /\ call[c].hdrs = 0
                  /\ ~call[c].sepSeen
                  /\ call[c].bodyLine = <<>>

\* The io::Error kinds of a connection that fails.
ConnectionErrors == {"WouldBlock", "ConnectionReset"}

\* C14, as claimed: the body is read only after a valid status line and the
\* "\r\n" line; what a call that read its body returns is told by the status
\* line and the body line alone; and no line sent before the "\r\n" line
\* ends the call, which leaves the skipping of header lines only at the
\* deadline or when the connection fails.
C14_HeadersDiscarded ==
    \A c \in callers :
        /\ call[c].bodyLine # <<>> =>
              /\ ParseStatus(call[c].statusLine).out = "ok"
              /\ call[c].sepSeen
        /\ (Done(c) /\ call[c].bodyLine # <<>>) =>
              call[c].result =
                 DecodeBody(call[c].rtype,
                            ParseStatus(call[c].statusLine).code,
                            call[c].bodyLine)
        /\ (Done(c) /\ call[c].stage = "headers") =>
              \/ call[c].result = Err(Timeout)
              \/ \E e \in ConnectionErrors : call[c].result = Err(SocketError(e))

\* C15: in get_line a read_line call that yields zero bytes is followed by
\* a sleep of 5 ms (one tick) and, if the deadline has not passed, another
\* read_line call; one that yields a line hands it to request at once,
\* with or without its "\n"; one that fails ends the call at once with
\* SocketError of that failure, whatever the time left to the deadline.
\* (Inside one read_line call, bytes with no "\n" among them are kept and
\* the socket is read again.)
C15_GetLine ==
    [][\A c \in callers :
         /\ (call[c].pc = "gl_read" /\ call'[c] # call[c]) =>
               \/ /\ call'[c].lastRead = "zero"
                  /\ call'[c].pc = "gl_sleep"
                  /\ call'[c].wake = now + 1
                  /\ call'[c].result = Pending
               \/ /\ call'[c].pc = "gl_read"
                  /\ call'[c].part # 0
                  /\ call'[c].lastRead = call[c].lastRead
               \/ /\ call'[c].lastRead = "line"
                  /\ call'[c].pc \in {"gl_check", "done"}
                  /\ call[c].stage = "status" => call'[c].statusLine # <<>>
                  /\ call[c].stage = "headers" =>
                        call'[c].hdrs = call[c].hdrs + 1 \/ call'[c].sepSeen
                  /\ call[c].stage = "body" => call'[c].bodyLine # <<>>
               \/ /\ call'[c].lastRead \notin {"none", "zero", "line"}
                  /\ call'[c].pc = "done"
                  /\ call'[c].result = Err(SocketError(call'[c].lastRead))
         /\ (call[c].pc = "gl_sleep" /\ call'[c] # call[c]) =>
               /\ call[c].lastRead = "zero"
               /\ now >= call[c].wake
               /\ call'[c].pc = "gl_check"
         /\ (call[c].pc = "gl_check" /\ call'[c] # call[c]) =>
               IF call[c].deadline > now
               THEN call'[c].pc = "gl_read" /\ call'[c].result = Pending
               ELSE call'[c].pc = "done" /\ call'[c].result = Err(Timeout)]_vars

\* A status line of 12 bytes with no "\n" was handed to request at the end
\* of the stream; the next read_line yielded zero bytes and get_line sleeps,
\* the deadline not yet reached.
C15_Witness ==
    /\ call[1].statusLine =
          <<"H", "T", "T", "P", "/", "1", ".", "1", " ", "5", "0", "0">>
    /\ call[1].stage = "headers"
    /\ call[1].pc = "gl_sleep"
    /\ call[1].lastRead = "zero"
    /\ call[1].wake = now + 1
    /\ now + 1 < call[1].deadline

(***************************************************************************)
(* More properties of the Builder, checked under SpecBuilder.              *)
(***************************************************************************)
\* Port texts with a third segment: after a valid port, after an invalid one.
ThirdAfterValidPort == {<<":", "2", "2", ":", "1">>, <<":", "2", "2", ":">>}
ThirdAfterInvalidPort == {<<":", "x", ":", "1">>, <<":", ":", "1">>}
\* Port texts of one segment that is no valid port: no number, empty, too large.
InvalidPortAlone == {<<":", "2", "x">>, <<":">>, <<":", "7", "0", "0", "0", "0">>}

\* The last url call failed with InvalidUrl, on its URL, for this reason.
UrlFailedFor(why) ==
    /\ builder.at = "failed"
    /\ builder.err = [kind |-> "InvalidUrl", url |-> UrlText(trace.url),
                      reason |-> why, code |-> 0, io |-> ""]

\* C16, as claimed: with a supported scheme, a third segment gives the
\* reason "unexpected extra colon" whatever the second segment contains,
\* and an invalid second segment with no third gives "invalid port".
C16_ExtraColonWhateverPort ==
    (UrlCalled /\ trace.url.sc \in SupportedSchemes) =>
        /\ trace.url.po \in ThirdAfterValidPort \cup ThirdAfterInvalidPort =>
              UrlFailedFor("unexpected extra colon")
        /\ trace.url.po \in InvalidPortAlone => UrlFailedFor("invalid port")

\* C16, amended: with a supported scheme, a second segment that is no valid
\* port gives the reason "invalid port" whether a third segment follows or
\* not; a third segment gives "unexpected extra colon" when the second
\* segment is a valid port.
C16_PortBeforeExtraColon ==
    (UrlCalled /\ trace.url.sc \in SupportedSchemes) =>
        /\ trace.url.po \in ThirdAfterValidPort =>
              UrlFailedFor("unexpected extra colon")
        /\ trace.url.po \in InvalidPortAlone \cup ThirdAfterInvalidPort =>
              UrlFailedFor("invalid port")

\* url("https://lh:x:1") failed with the reason "invalid port".
C16_Witness ==
    /\ UrlCalled
    /\ UrlText(trace.url) =
          <<"h", "t", "t", "p", "s", ":", "/", "/", "l", "h", ":", "x", ":", "1">>
    /\ UrlFailedFor("invalid port")

(***************************************************************************)
(* Termination of request, checked under SpecLive.                         *)
(***************************************************************************)
\* The call has begun, and the bound of the clock leaves room for its
\* deadline and for one more blocking read begun before the deadline.
BegunInTime(c) ==
    /\ c \in callers
    /\ call[c].pc # "idle"
    /\ call[c].deadline + transport.timeout <= MaxTime

\* C17, as claimed: while the clock advances and every blocking connect,
\* read and write returns within its timeout, every call of request that
\* has begun returns in the end, whatever the server sends.
C17_EventuallyReturns ==
    \A c \in Calls : BegunInTime(c) ~> Done(c)

(***************************************************************************)
(* The end of the stream and the deadline, checked under Spec.             *)
(***************************************************************************)
\* C18, as claimed: a call whose server closed the connection before the
\* body line ends with Error::Timeout, at the deadline or after it.
C18_TimeoutAfterEndOfStream ==
    \A c \in callers :
        (Done(c) /\ call[c].eof /\ call[c].bodyLine = <<>>) =>
            /\ call[c].result = Err(Timeout)
            /\ now >= call[c].deadline

\* C18, amended: once the stream has ended with the call waiting for a
\* line, be it by a read of zero bytes or after a line cut short that the
\* call took as a line, every read yields zero bytes and the call ends only
\* with Error::Timeout, at the deadline or after it.
C18_EndOfStreamWhileWaiting ==
    [][\A c \in callers :
         (call'[c] # call[c] /\ (call[c].eof \/ call'[c].lastRead = "zero")) =>
            /\ call'[c].eof
            /\ call'[c].lastRead \in {call[c].lastRead, "zero"}
            /\ call'[c].pc = "done" =>
                  /\ call'[c].result = Err(Timeout)
                  /\ now >= call[c].deadline]_vars

\* The server sent "HTTP/1.1 404 NF", a header line and "\r\n" and closed:
\* the call polled for its body line and timed out.
C18_Witness ==
    /\ Done(1)
    /\ call[1].code = 404
    /\ call[1].hdrs = 1
    /\ call[1].stage = "body"
    /\ call[1].eof
    /\ call[1].lastRead = "zero"
    /\ call[1].result = Err(Timeout)

\* C19: a call returns Error::Timeout only from the deadline test of
\* get_line and only with the clock at or past the deadline; the deadline
\* of a call never changes once the call has begun; a read is begun only
\* with the clock before the deadline; and a deadline test that finds the
\* deadline reached returns Error::Timeout with no read made, whatever the
\* server has sent.
C19_TimeoutOnlyAtDeadline ==
    [][\A c \in callers :
         call'[c] # call[c] =>
            /\ (call'[c].pc = "done" /\ call'[c].result = Err(Timeout)) =>
                  /\ call[c].pc = "gl_check"
                  /\ now >= call[c].deadline
            /\ call[c].pc # "idle" => call'[c].deadline = call[c].deadline
            /\ (call[c].pc = "gl_check" /\ call'[c].pc = "gl_read") =>
                  /\ now < call[c].deadline
                  /\ call'[c].readStart = now
            /\ (call[c].pc = "gl_check" /\ now >= call[c].deadline) =>
                  /\ call'[c].pc = "done"
                  /\ call'[c].result = Err(Timeout)
                  /\ call'[c].lastRead = call[c].lastRead
                  /\ call'[c].statusLine = call[c].statusLine
                  /\ call'[c].hdrs = call[c].hdrs
                  /\ call'[c].bodyLine = call[c].bodyLine]_vars

\* The status line, a header line and the "\r\n" line were read with no
\* empty read and no wait; the clock then reached the deadline and the call
\* timed out without a read for its body line.
C19_Witness ==
    /\ Done(1)
    /\ call[1].result = Err(Timeout)
    /\ call[1].stage = "body"
    /\ call[1].hdrs = 1
    /\ call[1].lastRead = "line"
    /\ ~call[1].eof
    /\ now = call[1].deadline
    /\ call[1].deadline = 2

(***************************************************************************)
(* The frame of the Builder's setters, checked under SpecBuilder.          *)
(***************************************************************************)
\* The address and the path a url call that returned Ok was asked for.
AskedAddr(u) ==
    DirectAddr(u.ho,
               IF u.po # <<>> THEN 22
               ELSE IF u.sc = <<>> THEN 8332
               ELSE IF u.sc = <<"h", "t", "t", "p", ":", "/", "/">> THEN 80
               ELSE 443)
AskedPath(u) == IF u.pa = <<>> THEN <<"/">> ELSE u.pa

\* C20: timeout() changes the timeout alone, a url() that returns Ok the
\* address and the path alone, auth() and cookie_auth() the auth header
\* alone, and build() hands on self.tp as it is; so while no url() has
\* failed, each field holds what the last call of its setter asked for, or
\* its default (15 s, 127.0.0.1:8332, "/", no header), whatever the order
\* of the calls.
C20_SetterFrames ==
    [][/\ (builder'.n = builder.n + 1 /\ trace'.last = "timeout") =>
             builder'.tp = [builder.tp EXCEPT !.timeout = builder'.tp.timeout]
       /\ (builder'.n = builder.n + 1 /\ trace'.last = "url"
                                      /\ builder'.at = "building") =>
             builder'.tp = [builder.tp EXCEPT !.addr = builder'.tp.addr,
                                              !.path = builder'.tp.path]
       /\ (builder'.n = builder.n + 1 /\ trace'.last \in {"auth", "cookie_auth"}) =>
             builder'.tp = [builder.tp EXCEPT !.basic_auth = builder'.tp.basic_auth]
       /\ (builder.at = "building" /\ builder'.at = "built") =>
             /\ transport' = builder.tp
             /\ builder'.tp = builder.tp
       /\ builder'.at # "failed" =>
             /\ builder'.tp.timeout =
                   IF trace'.tmo.some THEN trace'.tmo.val ELSE 3000
             /\ builder'.tp.addr =
                   IF trace'.set.some THEN AskedAddr(trace'.set.val)
                   ELSE SocketAddr(<<127, 0, 0, 1>>, 8332)
             /\ builder'.tp.path =
                   IF trace'.set.some THEN AskedPath(trace'.set.val) ELSE <<"/">>
             /\ builder'.tp.basic_auth.some = trace'.cred.some]_vars

\* The chain of the construct test in another order, auth("u", None) then
\* url("http://db:22/w?q=1") then timeout(100 ms), built.
C20_Witness ==
    /\ builder.at = "built"
    /\ builder.n = 3
    /\ trace.last = "timeout"
    /\ transport =
          [addr |-> SocketAddr(<<10, 0, 0, 2>>, 22),
           path |-> <<"/", "w", "?", "q", "=", "1">>,
           timeout |-> 20,
           basic_auth |-> Some(<<"B", "a", "s", "i", "c", " ", "d", "T", "o", "=">>)]

=============================================================================
